---------------------------- MODULE Spec2Model ----------------------------
(***************************************************************************)
(* A model of the C++11 bit-range functions of bit-utils                   *)
(* (src/bit-utils/BitUtils.cpp).                                           *)
(*                                                                         *)
(* Memory is one flat array of bytes.  A pointer is the address of a byte  *)
(* of this array; the buffers the callers own are NumBufs consecutive      *)
(* allocations of BufBytes bytes each.  Every function of the library is   *)
(* one action: it draws its arguments, runs the whole function on the      *)
(* memory and records the call, the memory before the call, the value      *)
(* returned and the exception thrown (if any).                             *)
(***************************************************************************)
EXTENDS Integers, Sequences, FiniteSets, TLC

VARIABLES
    mem,    \* the bytes of the memory, address -> 0..255
    old,    \* the memory as it was before the recorded call
    call,   \* the recorded call: function name and arguments
    ret,    \* the value the recorded call returned
    err     \* "ok", or the exception the recorded call threw

vars == <<mem, old, call, ret, err>>

---------------------------------------------------------------------------
(* Program constants and the bounds of the model. *)

CHAR_SIZE == 8

\* bytes in each caller-owned buffer
BufBytes == 2

\* number of caller-owned buffers
NumBufs == 3

MemBytes == NumBufs * BufBytes
BufBits  == BufBytes * CHAR_SIZE
Addrs    == 0 .. (MemBytes - 1)

\* the pointers callers pass: the first byte of each buffer
Ptrs == { b * BufBytes : b \in 0 .. (NumBufs - 1) }

\* the initial memories: seed k gives byte a the value 10101100 where bit
\* (a mod 8) of k is set and 01010011 where it is clear
MaxSeed == 63
Seeds == 0 .. MaxSeed

\* every valid range [start_bit, end_bit) of one buffer
Ranges == { r \in (0 .. BufBits) \X (0 .. BufBits) : r[1] < r[2] }

\* the ranges whose ends are multiples of 4, and of 2 (drawn where a call
\* takes three views)
EvenRanges == { r \in Ranges : r[1] % 2 = 0 /\ r[2] % 2 = 0 }
QuadRanges == { r \in Ranges : r[1] % 4 = 0 /\ r[2] % 4 = 0 }

\* pointer tuples up to renaming of the buffers: the first pointer is the
\* first buffer, every other pointer is a buffer already named or the next
PtrPairs == { t \in Ptrs \X Ptrs : t[1] = 0 /\ t[2] <= BufBytes }
PtrTriples == { t \in Ptrs \X Ptrs \X Ptrs :
                  /\ t[1] = 0
                  /\ t[2] <= BufBytes
                  /\ t[3] <= t[2] + BufBytes }

View(p, r) == [p |-> p, s |-> r[1], e |-> r[2]]
NoView == [p |-> 0, s |-> 0, e |-> 0]

Width(v) == v.e - v.s

Min(a, b) == IF a < b THEN a ELSE b

\* std::size_t arithmetic wraps around; the model keeps SizeBits bits, which
\* is enough for a wrapped difference to exceed every width, index and shift
\* amount that is drawn
SizeBits == 20
SizeMod == 2 ^ SizeBits
Sub(a, b) == (a - b) % SizeMod
Add(a, b) == (a + b) % SizeMod

---------------------------------------------------------------------------
(* Bytes as numbers 0..255, bit k having weight 2^k (the little-endian     *)
(* branch of the source: the macro (1 << 1) > 1 is always true).           *)

BitOf(byte, k) == (byte \div (2 ^ k)) % 2

\* byte | (1 << k), truncated to an unsigned char
OrMask(byte, k) == IF BitOf(byte, k) = 1 THEN byte ELSE byte + 2 ^ k

\* byte ^ (1 << k), truncated to an unsigned char
XorMask(byte, k) == IF BitOf(byte, k) = 1 THEN byte - 2 ^ k ELSE byte + 2 ^ k

\* a machine state threaded through the statements of a function
St(m) == [mem |-> m, err |-> "ok"]

---------------------------------------------------------------------------
(* Bounds validation and paging. *)

\* the mutant of validateBounds that lets the index one past the view through
validateBounds_lax(start_bit, end_bit, i) ==
    IF start_bit >= end_bit THEN "invalid_argument"
    ELSE IF i > end_bit - start_bit THEN "out_of_range"
    ELSE "ok"

validateBounds(start_bit, end_bit, i) ==
    IF start_bit >= end_bit THEN "invalid_argument"
    ELSE IF i >= end_bit - start_bit THEN "out_of_range"
    ELSE "ok"

getPage(src, start_bit, end_bit, i) ==
    IF end_bit - start_bit = CHAR_SIZE
    THEN src
    ELSE src + ((i + start_bit) \div CHAR_SIZE)

---------------------------------------------------------------------------
(* Single-bit accessors (range-qualified forms). *)

\* the value get returns when its bounds validate
get(m, block, start_bit, end_bit, i) ==
    BitOf(m[getPage(block, start_bit, end_bit, i)],
          (i + start_bit) % CHAR_SIZE) = 1

flip(st, block, start_bit, end_bit, i) ==
    IF st.err # "ok" THEN st
    ELSE LET v == validateBounds(start_bit, end_bit, i) IN
         IF v # "ok" THEN [st EXCEPT !.err = v]
         ELSE [st EXCEPT !.mem[getPage(block, start_bit, end_bit, i)] =
                             XorMask(@, (i + start_bit) % CHAR_SIZE)]

set(st, block, start_bit, end_bit, i, b) ==
    IF st.err # "ok" THEN st
    ELSE LET v == validateBounds(start_bit, end_bit, i) IN
         IF v # "ok" THEN [st EXCEPT !.err = v]
         ELSE LET st1 == [st EXCEPT !.mem[getPage(block, start_bit, end_bit, i)] =
                                        OrMask(@, (i + start_bit) % CHAR_SIZE)]
              IN  IF b THEN st1 ELSE flip(st1, block, start_bit, end_bit, i)

---------------------------------------------------------------------------
(* The recorded call. *)

Call(op, v1, v2, v3, i, b) ==
    [op |-> op, v1 |-> v1, v2 |-> v2, v3 |-> v3, i |-> i, b |-> b]

Idle == call.op = "none"

\* the effect of a call that returns nothing
Does(c, st) ==
    /\ mem'  = st.mem
    /\ old'  = mem
    /\ call' = c
    /\ ret'  = FALSE
    /\ err'  = st.err

InitMem(k) == [a \in Addrs |-> IF BitOf(k, a % CHAR_SIZE) = 1 THEN 172 ELSE 83]

Init ==
    /\ mem \in { InitMem(k) : k \in Seeds }
    /\ old = mem
    /\ call = Call("none", NoView, NoView, NoView, 0, FALSE)
    /\ ret = FALSE
    /\ err = "ok"

---------------------------------------------------------------------------
(* Actions: get, set, flip. *)

Get ==
    /\ Idle
    /\ \E p \in Ptrs, r \in Ranges :
       \E i \in 0 .. (r[2] - r[1] - 1) :
        /\ mem'  = mem
        /\ old'  = mem
        /\ call' = Call("get", View(p, r), NoView, NoView, i, FALSE)
        /\ err'  = validateBounds(r[1], r[2], i)
        /\ ret'  = IF err' = "ok" THEN get(mem, p, r[1], r[2], i) ELSE FALSE

Set ==
    /\ Idle
    /\ \E p \in Ptrs, r \in Ranges, b \in BOOLEAN :
       \E i \in 0 .. (r[2] - r[1] - 1) :
        Does(Call("set", View(p, r), NoView, NoView, i, b),
             set(St(mem), p, r[1], r[2], i, b))

Flip ==
    /\ Idle
    /\ \E p \in Ptrs, r \in Ranges :
       \E i \in 0 .. (r[2] - r[1] - 1) :
        Does(Call("flip", View(p, r), NoView, NoView, i, FALSE),
             flip(St(mem), p, r[1], r[2], i))

NextAccess == Get \/ Set \/ Flip

SpecAccess == Init /\ [][NextAccess]_vars

---------------------------------------------------------------------------
(* size and fill. *)

size(n) ==
    IF n <= CHAR_SIZE THEN 1
    ELSE LET temp == (n \div CHAR_SIZE) * CHAR_SIZE
         IN  (temp \div CHAR_SIZE) + (IF temp < n THEN 1 ELSE 0)

\* the loop of the range-qualified fill, from local index i on
RECURSIVE fillLoop(_, _, _, _, _, _)
fillLoop(st, src, start_bit, end_bit, b, i) ==
    IF st.err # "ok" \/ ~(i < Sub(end_bit, start_bit)) THEN st
    ELSE fillLoop(set(st, src, start_bit, end_bit, i, b),
                  src, start_bit, end_bit, b, i + 1)

fill(st, src, start_bit, end_bit, b) ==
    IF st.err # "ok" THEN st
    ELSE fillLoop(st, src, start_bit, end_bit, b, 0)

\* the mutant of fillN that goes bit by bit over [0, n)
fillN_bitwise(st, src, n, b) == fill(st, src, 0, n, b)

\* the whole-buffer fill: one byte store, or memset over size(n) bytes
fillN(st, src, n, b) ==
    IF st.err # "ok" THEN st
    ELSE [st EXCEPT !.mem =
            [a \in Addrs |-> IF a >= src /\ a < src + size(n)
                             THEN (IF b THEN 255 ELSE 0)
                             ELSE st.mem[a]]]

Fill ==
    /\ Idle
    /\ \E p \in Ptrs, r \in Ranges, b \in BOOLEAN :
        Does(Call("fill", View(p, r), NoView, NoView, 0, b),
             fill(St(mem), p, r[1], r[2], b))

FillN ==
    /\ Idle
    /\ \E p \in Ptrs, n \in 1 .. BufBits, b \in BOOLEAN :
        Does(Call("fill_n", View(p, <<0, n>>), NoView, NoView, 0, b),
             fillN(St(mem), p, n, b))

NextFill == Fill \/ FillN

SpecFill == Init /\ [][NextFill]_vars

---------------------------------------------------------------------------
(* The overlap test, copy and the bitwise functions (range-qualified       *)
(* forms).  Pointers are compared as the addresses they hold.              *)

do_bounds_overlap(left, left_start_bit, left_end_bit, right, right_start_bit, right_end_bit) ==
    IF left = right THEN TRUE
    ELSE \/ left + (left_end_bit - left_start_bit) >= right
         \/ right + (right_end_bit - right_start_bit) >= left

\* set(dst, ..., i, get(src, ..., i)): get is evaluated, and may throw, first
copyBit(st, src, src_start_bit, src_end_bit, dst, dst_start_bit, dst_end_bit, i) ==
    IF st.err # "ok" THEN st
    ELSE LET v == validateBounds(src_start_bit, src_end_bit, i) IN
         IF v # "ok" THEN [st EXCEPT !.err = v]
         ELSE set(st, dst, dst_start_bit, dst_end_bit, i,
                  get(st.mem, src, src_start_bit, src_end_bit, i))

\* for (i = min_n; i > 0; i--) copy bit i - 1
RECURSIVE copyDown(_, _, _, _, _, _, _, _)
copyDown(st, src, src_start_bit, src_end_bit, dst, dst_start_bit, dst_end_bit, i) ==
    IF st.err # "ok" \/ ~(i > 0) THEN st
    ELSE copyDown(copyBit(st, src, src_start_bit, src_end_bit,
                          dst, dst_start_bit, dst_end_bit, i - 1),
                  src, src_start_bit, src_end_bit, dst, dst_start_bit, dst_end_bit,
                  i - 1)

\* for (i = 0; i < min_n; i++) copy bit i
RECURSIVE copyUp(_, _, _, _, _, _, _, _, _)
copyUp(st, src, src_start_bit, src_end_bit, dst, dst_start_bit, dst_end_bit, i, min_n) ==
    IF st.err # "ok" \/ ~(i < min_n) THEN st
    ELSE copyUp(copyBit(st, src, src_start_bit, src_end_bit,
                        dst, dst_start_bit, dst_end_bit, i),
                src, src_start_bit, src_end_bit, dst, dst_start_bit, dst_end_bit,
                i + 1, min_n)

\* l <op> r on two bits
Combine(op, l, r) ==
    CASE op = "and" -> l /\ r
      [] op = "or"  -> l \/ r
      [] op = "xor" -> l # r

\* one pass of the loop body of bitwise_and / bitwise_xor at local index i:
\* both operands are read through views cut to min_n bits, then dst is set
combineBit(st, op, left, left_start_bit, right, right_start_bit, dst, dst_start_bit, min_n, i) ==
    IF st.err # "ok" THEN st
    ELSE LET vl == validateBounds(left_start_bit, Add(left_start_bit, min_n), i)
             vr == validateBounds(right_start_bit, Add(right_start_bit, min_n), i)
         IN  IF vl # "ok" THEN [st EXCEPT !.err = vl]
             ELSE IF vr # "ok" THEN [st EXCEPT !.err = vr]
             ELSE set(st, dst, dst_start_bit, Add(dst_start_bit, min_n), i,
                      Combine(op,
                              get(st.mem, left, left_start_bit,
                                  Add(left_start_bit, min_n), i),
                              get(st.mem, right, right_start_bit,
                                  Add(right_start_bit, min_n), i)))

\* the loop with step = -1: i runs from min_n down to 1, the bit is i - 1
RECURSIVE combineDown(_, _, _, _, _, _, _, _, _, _)
combineDown(st, op, left, left_start_bit, right, right_start_bit, dst, dst_start_bit, min_n, i) ==
    IF st.err # "ok" \/ ~(i > 0) THEN st
    ELSE combineDown(combineBit(st, op, left, left_start_bit, right, right_start_bit,
                                dst, dst_start_bit, min_n, i - 1),
                     op, left, left_start_bit, right, right_start_bit,
                     dst, dst_start_bit, min_n, i - 1)

\* the loop with step = 1: i runs from 0 up to min_n - 1
RECURSIVE combineUp(_, _, _, _, _, _, _, _, _, _)
combineUp(st, op, left, left_start_bit, right, right_start_bit, dst, dst_start_bit, min_n, i) ==
    IF st.err # "ok" \/ ~(i < min_n) THEN st
    ELSE combineUp(combineBit(st, op, left, left_start_bit, right, right_start_bit,
                              dst, dst_start_bit, min_n, i),
                   op, left, left_start_bit, right, right_start_bit,
                   dst, dst_start_bit, min_n, i + 1)

\* min_n over the three widths
min3(left_start_bit, left_end_bit, right_start_bit, right_end_bit, dst_start_bit, dst_end_bit) ==
    Min(Min(Sub(left_end_bit, left_start_bit), Sub(right_end_bit, right_start_bit)),
        Sub(dst_end_bit, dst_start_bit))

\* the direction choice and the loop shared by bitwise_and and bitwise_xor
combineDirected(st, op, left, left_start_bit, left_end_bit, right, right_start_bit, right_end_bit, dst, dst_start_bit, dst_end_bit) ==
    LET min_n == min3(left_start_bit, left_end_bit, right_start_bit, right_end_bit,
                      dst_start_bit, dst_end_bit)
        reverse ==
            /\ do_bounds_overlap(left, left_start_bit, left_end_bit,
                                 right, right_start_bit, right_end_bit)
            /\ do_bounds_overlap(left, left_start_bit, left_end_bit,
                                 dst, dst_start_bit, dst_end_bit)
            /\ (left_start_bit < dst_start_bit \/ right_start_bit < dst_start_bit)
    IN  IF reverse
        THEN combineDown(st, op, left, left_start_bit, right, right_start_bit,
                         dst, dst_start_bit, min_n, min_n)
        ELSE combineUp(st, op, left, left_start_bit, right, right_start_bit,
                       dst, dst_start_bit, min_n, 0)

\* the loop of bitwise_or at local index i; || does not read right when the
\* left bit is set
orBit(st, left, left_start_bit, right, right_start_bit, dst, dst_start_bit, min_n, i) ==
    IF st.err # "ok" THEN st
    ELSE LET vl == validateBounds(left_start_bit, Add(left_start_bit, min_n), i)
             vr == validateBounds(right_start_bit, Add(right_start_bit, min_n), i)
             l  == get(st.mem, left, left_start_bit, Add(left_start_bit, min_n), i)
         IN  IF vl # "ok" THEN [st EXCEPT !.err = vl]
             ELSE IF l
                  THEN set(st, dst, dst_start_bit, Add(dst_start_bit, min_n), i, TRUE)
             ELSE IF vr # "ok" THEN [st EXCEPT !.err = vr]
             ELSE set(st, dst, dst_start_bit, Add(dst_start_bit, min_n), i,
                      get(st.mem, right, right_start_bit, Add(right_start_bit, min_n), i))

RECURSIVE orUp(_, _, _, _, _, _, _, _, _)
orUp(st, left, left_start_bit, right, right_start_bit, dst, dst_start_bit, min_n, i) ==
    IF st.err # "ok" \/ ~(i < min_n) THEN st
    ELSE orUp(orBit(st, left, left_start_bit, right, right_start_bit,
                    dst, dst_start_bit, min_n, i),
              left, left_start_bit, right, right_start_bit, dst, dst_start_bit,
              min_n, i + 1)

RECURSIVE copy(_, _, _, _, _, _, _)
RECURSIVE bitwise_or(_, _, _, _, _, _, _, _, _, _)

copy(st, src, src_start_bit, src_end_bit, dst, dst_start_bit, dst_end_bit) ==
    IF st.err # "ok" THEN st
    ELSE IF src = dst /\ src_start_bit = dst_start_bit /\ src_end_bit = dst_end_bit
    THEN st
    ELSE LET min_n == Min(Sub(src_end_bit, src_start_bit), Sub(dst_end_bit, dst_start_bit)) IN
         IF do_bounds_overlap(src, src_start_bit, src_end_bit,
                              dst, dst_start_bit, dst_end_bit)
         THEN IF src_start_bit < dst_start_bit
              THEN copyDown(st, src, src_start_bit, src_end_bit,
                            dst, dst_start_bit, dst_end_bit, min_n)
              ELSE copyUp(st, src, src_start_bit, src_end_bit,
                          dst, dst_start_bit, dst_end_bit, 0, min_n)
         ELSE bitwise_or(fill(st, dst, dst_start_bit, Add(dst_start_bit, min_n), FALSE),
                         src, src_start_bit, Add(src_start_bit, min_n),
                         dst, dst_start_bit, Add(dst_start_bit, min_n),
                         dst, dst_start_bit, Add(dst_start_bit, min_n))

bitwise_or(st, left, left_start_bit, left_end_bit, right, right_start_bit, right_end_bit, dst, dst_start_bit, dst_end_bit) ==
    IF st.err # "ok" THEN st
    ELSE IF left = right
    THEN IF left = dst THEN st
         ELSE copy(st, left, left_start_bit, left_end_bit,
                   dst, dst_start_bit, dst_end_bit)
    ELSE orUp(st, left, left_start_bit, right, right_start_bit, dst, dst_start_bit,
              min3(left_start_bit, left_end_bit, right_start_bit, right_end_bit,
                   dst_start_bit, dst_end_bit),
              0)

bitwise_and(st, left, left_start_bit, left_end_bit, right, right_start_bit, right_end_bit, dst, dst_start_bit, dst_end_bit) ==
    IF st.err # "ok" THEN st
    ELSE IF /\ left = right
            /\ left_start_bit = right_start_bit
            /\ left_end_bit = right_end_bit
            /\ left = dst
            /\ left_start_bit = dst_start_bit
            /\ left_end_bit = dst_end_bit
    THEN st
    ELSE combineDirected(st, "and", left, left_start_bit, left_end_bit,
                         right, right_start_bit, right_end_bit,
                         dst, dst_start_bit, dst_end_bit)

bitwise_xor(st, left, left_start_bit, left_end_bit, right, right_start_bit, right_end_bit, dst, dst_start_bit, dst_end_bit) ==
    IF st.err # "ok" THEN st
    ELSE IF /\ left = right
            /\ left_start_bit = right_start_bit
            /\ left_end_bit = right_end_bit
    THEN fill(st, dst, dst_start_bit, dst_end_bit, FALSE)
    ELSE combineDirected(st, "xor", left, left_start_bit, left_end_bit,
                         right, right_start_bit, right_end_bit,
                         dst, dst_start_bit, dst_end_bit)

\* the in-place loops of bitwise_not: flip dst bit i - 1 for i = min_n .. 1
RECURSIVE notDown(_, _, _, _, _)
notDown(st, dst, dst_start_bit, dst_end_bit, i) ==
    IF st.err # "ok" \/ ~(i > 0) THEN st
    ELSE notDown(flip(st, dst, dst_start_bit, dst_end_bit, i - 1),
                 dst, dst_start_bit, dst_end_bit, i - 1)

\* flip dst bit i for i = 0 .. min_n - 1
RECURSIVE notUp(_, _, _, _, _, _)
notUp(st, dst, dst_start_bit, dst_end_bit, i, min_n) ==
    IF st.err # "ok" \/ ~(i < min_n) THEN st
    ELSE notUp(flip(st, dst, dst_start_bit, dst_end_bit, i),
               dst, dst_start_bit, dst_end_bit, i + 1, min_n)

bitwise_not(st, src, src_start_bit, src_end_bit, dst, dst_start_bit, dst_end_bit) ==
    IF st.err # "ok" THEN st
    ELSE IF do_bounds_overlap(src, src_start_bit, src_end_bit,
                              dst, dst_start_bit, dst_end_bit)
    THEN LET min_n == Min(Sub(dst_end_bit, dst_start_bit), Sub(src_end_bit, src_start_bit)) IN
         IF src_start_bit < dst_start_bit
         THEN notDown(st, dst, dst_start_bit, dst_end_bit, min_n)
         ELSE notUp(st, dst, dst_start_bit, dst_end_bit, 0, min_n)
    ELSE bitwise_xor(fill(st, dst, dst_start_bit, dst_end_bit, TRUE),
                     src, src_start_bit, src_end_bit,
                     dst, dst_start_bit, dst_end_bit,
                     dst, dst_start_bit, dst_end_bit)

---------------------------------------------------------------------------
(* Actions: copy, bitwise_and, bitwise_or, bitwise_xor, bitwise_not. *)

\* copy(src, dst): v1 is src, v2 is dst
Copy ==
    /\ Idle
    /\ \E t \in PtrPairs, rs \in Ranges, rd \in Ranges :
        Does(Call("copy", View(t[1], rs), View(t[2], rd), NoView, 0, FALSE),
             copy(St(mem), t[1], rs[1], rs[2], t[2], rd[1], rd[2]))

NextCopy == Copy

\* calls on two views name at most the first two buffers, so the initial
\* memories drawn are those that vary the bytes of these two
MaxPairSeed == 15

InitPair ==
    /\ Init
    /\ mem \in { InitMem(k) : k \in 0 .. MaxPairSeed }

SpecCopy == InitPair /\ [][NextCopy]_vars

\* bitwise_<op>(left, right, dst): v1 is left, v2 is right, v3 is dst; the
\* pointers are drawn from T and the three ranges from R
BitwiseAnd(T, R) ==
    /\ Idle
    /\ \E t \in T, rl \in R, rr \in R, rd \in R :
        Does(Call("and", View(t[1], rl), View(t[2], rr), View(t[3], rd), 0, FALSE),
             bitwise_and(St(mem), t[1], rl[1], rl[2], t[2], rr[1], rr[2],
                         t[3], rd[1], rd[2]))

BitwiseOr(T, R) ==
    /\ Idle
    /\ \E t \in T, rl \in R, rr \in R, rd \in R :
        Does(Call("or", View(t[1], rl), View(t[2], rr), View(t[3], rd), 0, FALSE),
             bitwise_or(St(mem), t[1], rl[1], rl[2], t[2], rr[1], rr[2],
                        t[3], rd[1], rd[2]))

BitwiseXor(T, R) ==
    /\ Idle
    /\ \E t \in T, rl \in R, rr \in R, rd \in R :
        Does(Call("xor", View(t[1], rl), View(t[2], rr), View(t[3], rd), 0, FALSE),
             bitwise_xor(St(mem), t[1], rl[1], rl[2], t[2], rr[1], rr[2],
                         t[3], rd[1], rd[2]))

\* the three functions on every combination of buffers, coarse ranges
NextBitwise ==
    \/ BitwiseAnd(PtrTriples, QuadRanges)
    \/ BitwiseOr(PtrTriples, QuadRanges)
    \/ BitwiseXor(PtrTriples, QuadRanges)

MaxTripleSeed == 31

InitTriple ==
    /\ Init
    /\ mem \in { InitMem(k) : k \in 0 .. MaxTripleSeed }

SpecBitwise == InitTriple /\ [][NextBitwise]_vars

\* the three functions on three views of the first buffer, finer ranges; only
\* the first buffer's contents matter, so fewer initial memories are drawn
MaxAliasSeed == 3

InitAlias ==
    /\ Init
    /\ mem \in { InitMem(k) : k \in 0 .. MaxAliasSeed }

SamePtr == { <<0, 0, 0>> }

NextAlias ==
    \/ BitwiseAnd(SamePtr, EvenRanges)
    \/ BitwiseOr(SamePtr, EvenRanges)
    \/ BitwiseXor(SamePtr, EvenRanges)

SpecAlias == InitAlias /\ [][NextAlias]_vars

\* bitwise_not(src, dst): v1 is src, v2 is dst
BitwiseNot ==
    /\ Idle
    /\ \E t \in PtrPairs, rs \in Ranges, rd \in Ranges :
        Does(Call("not", View(t[1], rs), View(t[2], rd), NoView, 0, FALSE),
             bitwise_not(St(mem), t[1], rs[1], rs[2], t[2], rd[1], rd[2]))

NextNot == BitwiseNot

SpecNot == InitPair /\ [][NextNot]_vars

\* the in-place form bitwise_not(src, start_bit, end_bit)
bitwise_not_inplace(st, src, start_bit, end_bit) ==
    bitwise_not(st, src, start_bit, end_bit, src, start_bit, end_bit)

\* bitwise_not(V) on an untouched memory
NotInPlace ==
    /\ Idle
    /\ \E p \in Ptrs, r \in Ranges :
        Does(Call("not_v", View(p, r), NoView, NoView, 0, FALSE),
             bitwise_not_inplace(St(mem), p, r[1], r[2]))

\* the same call once more on the result; old keeps the contents from before
\* the first call
NotAgain ==
    /\ call.op = "not_v"
    /\ err = "ok"
    /\ LET st == bitwise_not_inplace(St(mem), call.v1.p, call.v1.s, call.v1.e) IN
        /\ mem'  = st.mem
        /\ err'  = st.err
        /\ call' = [call EXCEPT !.op = "not_vv"]
        /\ UNCHANGED <<old, ret>>

NextNotTwice == NotInPlace \/ NotAgain

SpecNotTwice == Init /\ [][NextNotTwice]_vars

\* the result of a call that returns a value: the value and the exception
Rv(v, e) == [ret |-> v, err |-> e]

\* the loop of the range-qualified compare, from local index i on
RECURSIVE compareLoop(_, _, _, _, _, _, _, _, _)
compareLoop(m, left, left_start_bit, left_end_bit, right, right_start_bit, right_end_bit, i, min_n) ==
    IF ~(i < min_n) THEN Rv(0, "ok")
    ELSE LET vl == validateBounds(left_start_bit, left_end_bit, i)
             vr == validateBounds(right_start_bit, right_end_bit, i)
         IN  IF vl # "ok" THEN Rv(0, vl)
             ELSE IF vr # "ok" THEN Rv(0, vr)
             ELSE LET l == get(m, left, left_start_bit, left_end_bit, i)
                      r == get(m, right, right_start_bit, right_end_bit, i)
                  IN  IF l # r
                      THEN Rv(IF l /\ ~r THEN 1 ELSE -1, "ok")
                      ELSE compareLoop(m, left, left_start_bit, left_end_bit,
                                       right, right_start_bit, right_end_bit,
                                       i + 1, min_n)

compare(m, left, left_start_bit, left_end_bit, right, right_start_bit, right_end_bit) ==
    compareLoop(m, left, left_start_bit, left_end_bit,
                right, right_start_bit, right_end_bit, 0,
                Min(Sub(left_end_bit, left_start_bit),
                    Sub(right_end_bit, right_start_bit)))

\* the effect of a call that returns a value and writes nothing
Returns(c, rv) ==
    /\ mem'  = mem
    /\ old'  = mem
    /\ call' = c
    /\ ret'  = rv.ret
    /\ err'  = rv.err

\* compare(left, right): v1 is left, v2 is right
Compare ==
    /\ Idle
    /\ \E t \in PtrPairs, rl \in Ranges, rr \in Ranges :
        Returns(Call("compare", View(t[1], rl), View(t[2], rr), NoView, 0, FALSE),
                compare(mem, t[1], rl[1], rl[2], t[2], rr[1], rr[2]))

NextCompare == Compare

SpecCompare == InitPair /\ [][NextCompare]_vars

---------------------------------------------------------------------------
(* The whole-buffer forms: bounds validation and paging on (n, i). *)

validateBoundsN(n, i) ==
    IF n = 0 THEN "invalid_argument"
    ELSE IF i >= n THEN "out_of_range"
    ELSE "ok"

getPageN(src, n, i) ==
    IF n = CHAR_SIZE THEN src ELSE src + (i \div CHAR_SIZE)

\* memcmp over len bytes from byte i on; only the sign of the result is
\* specified, and it is the sign that is kept
RECURSIVE memcmp(_, _, _, _, _)
memcmp(m, left, right, len, i) ==
    IF ~(i < len) THEN 0
    ELSE IF m[left + i] < m[right + i] THEN -1
    ELSE IF m[left + i] > m[right + i] THEN 1
    ELSE memcmp(m, left, right, len, i + 1)

compareN(m, left, right, n) == Rv(memcmp(m, left, right, size(n), 0), "ok")

equals(m, left, left_start_bit, left_end_bit, right, right_start_bit, right_end_bit) ==
    LET c == compare(m, left, left_start_bit, left_end_bit,
                     right, right_start_bit, right_end_bit)
    IN  Rv(c.err = "ok" /\ c.ret = 0, c.err)

\* the byte loop of the whole-buffer equals, from byte i on
RECURSIVE equalsNLoop(_, _, _, _, _)
equalsNLoop(m, left, right, n, i) ==
    IF ~(i < size(n)) THEN Rv(TRUE, "ok")
    ELSE LET v == validateBoundsN(n, i * CHAR_SIZE) IN
         IF v # "ok" THEN Rv(FALSE, v)
         ELSE IF m[getPageN(left, n, i * CHAR_SIZE)] # m[getPageN(right, n, i * CHAR_SIZE)]
              THEN Rv(FALSE, "ok")
              ELSE equalsNLoop(m, left, right, n, i + 1)

equalsN(m, left, right, n) == equalsNLoop(m, left, right, n, 0)

(* The C++17 class BitUtils<_n> without bounds (start_bit = 0, end_bit = _n). *)

RECURSIVE floorlog2(_)
floorlog2(x) == IF x = 1 THEN 0 ELSE 1 + floorlog2(x \div 2)

\* the class constant size
size17(n) == floorlog2(n)

getPage17(block, n, i) ==
    IF n = CHAR_SIZE THEN block ELSE block + (i \div CHAR_SIZE)

\* the unbounded branch of equals: bool(byte) != bool(byte), byte by byte
RECURSIVE equals17Loop(_, _, _, _, _)
equals17Loop(m, left, right, n, i) ==
    IF ~(i < size17(n)) THEN TRUE
    ELSE IF (m[getPage17(left, n, i * CHAR_SIZE)] # 0)
                # (m[getPage17(right, n, i * CHAR_SIZE)] # 0)
         THEN FALSE
         ELSE equals17Loop(m, left, right, n, i + 1)

equals17(m, left, right, n) == Rv(equals17Loop(m, left, right, n, 0), "ok")

\* the unbounded branch of compare: memcmp over size bytes
compare17(m, left, right, n) == Rv(memcmp(m, left, right, size17(n), 0), "ok")

\* equals(left, right): v1 is left, v2 is right
Equals ==
    /\ Idle
    /\ \E t \in PtrPairs, rl \in EvenRanges, rr \in EvenRanges :
        Returns(Call("equals", View(t[1], rl), View(t[2], rr), NoView, 0, FALSE),
                equals(mem, t[1], rl[1], rl[2], t[2], rr[1], rr[2]))

\* equals(left, right, n)
EqualsN ==
    /\ Idle
    /\ \E t \in PtrPairs, n \in 1 .. BufBits :
        Returns(Call("equals_n", View(t[1], <<0, n>>), View(t[2], <<0, n>>), NoView, 0, FALSE),
                equalsN(mem, t[1], t[2], n))

\* the class sizes whose size bytes lie inside a buffer
Sizes17 == { n \in 1 .. BufBits : size17(n) <= BufBytes }

\* BitUtils<n>::equals(left, right)
Equals17 ==
    /\ Idle
    /\ \E t \in PtrPairs, n \in Sizes17 :
        Returns(Call("equals17", View(t[1], <<0, n>>), View(t[2], <<0, n>>), NoView, 0, FALSE),
                equals17(mem, t[1], t[2], n))

NextEquals == Equals \/ EqualsN \/ Equals17

\* byte values that differ in every bit (83, 172), in one bit (83, 87) and
\* not at all, in the two buffers the calls name
NearBytes == {83, 87, 172}

\* the memories whose first two buffers hold bytes of B, before any call
InitFrom(B) ==
    /\ mem \in { m \in [Addrs -> B \cup {83}] :
                   \A a \in Addrs : IF a < 2 * BufBytes THEN m[a] \in B ELSE m[a] = 83 }
    /\ old = mem
    /\ call = Call("none", NoView, NoView, NoView, 0, FALSE)
    /\ ret = FALSE
    /\ err = "ok"

InitNear == InitFrom(NearBytes)

SpecEquals == InitNear /\ [][NextEquals]_vars

---------------------------------------------------------------------------
(* all and bool_op. *)

\* the loop of the range-qualified all, from local index i on
RECURSIVE allLoop(_, _, _, _, _)
allLoop(m, block, start_bit, end_bit, i) ==
    IF ~(i < Sub(end_bit, start_bit)) THEN Rv(TRUE, "ok")
    ELSE LET v == validateBounds(start_bit, end_bit, i) IN
         IF v # "ok" THEN Rv(FALSE, v)
         ELSE IF ~get(m, block, start_bit, end_bit, i) THEN Rv(FALSE, "ok")
         ELSE allLoop(m, block, start_bit, end_bit, i + 1)

all(m, block, start_bit, end_bit) == allLoop(m, block, start_bit, end_bit, 0)

\* the byte loop of the whole-buffer all, from byte i on
RECURSIVE allNLoop(_, _, _, _)
allNLoop(m, block, n, i) ==
    IF ~(i < size(n)) THEN Rv(TRUE, "ok")
    ELSE LET v == validateBoundsN(n, i * CHAR_SIZE) IN
         IF v # "ok" THEN Rv(FALSE, v)
         ELSE IF m[getPageN(block, n, i * CHAR_SIZE)] # 255 THEN Rv(FALSE, "ok")
         ELSE allNLoop(m, block, n, i + 1)

allN(m, block, n) == allNLoop(m, block, n, 0)

\* the loop of the range-qualified bool_op, from local index i on
RECURSIVE boolOpLoop(_, _, _, _, _)
boolOpLoop(m, src, start_bit, end_bit, i) ==
    IF ~(i < Sub(end_bit, start_bit)) THEN Rv(FALSE, "ok")
    ELSE LET v == validateBounds(start_bit, end_bit, i) IN
         IF v # "ok" THEN Rv(FALSE, v)
         ELSE IF get(m, src, start_bit, end_bit, i) THEN Rv(TRUE, "ok")
         ELSE boolOpLoop(m, src, start_bit, end_bit, i + 1)

bool_op(m, src, start_bit, end_bit) == boolOpLoop(m, src, start_bit, end_bit, 0)

\* the byte loop of the whole-buffer bool_op: i runs over 0, 8, 16, ... below n
RECURSIVE boolOpNLoop(_, _, _, _)
boolOpNLoop(m, src, n, i) ==
    IF ~(i < n) THEN Rv(FALSE, "ok")
    ELSE LET v == validateBoundsN(n, i) IN
         IF v # "ok" THEN Rv(FALSE, v)
         ELSE IF m[getPageN(src, n, i)] # 0 THEN Rv(TRUE, "ok")
         ELSE boolOpNLoop(m, src, n, i + CHAR_SIZE)

bool_opN(m, src, n) == boolOpNLoop(m, src, n, 0)

All ==
    /\ Idle
    /\ \E p \in Ptrs, r \in Ranges :
        Returns(Call("all", View(p, r), NoView, NoView, 0, FALSE),
                all(mem, p, r[1], r[2]))

AllN ==
    /\ Idle
    /\ \E p \in Ptrs, n \in 1 .. BufBits :
        Returns(Call("all_n", View(p, <<0, n>>), NoView, NoView, 0, FALSE),
                allN(mem, p, n))

BoolOp ==
    /\ Idle
    /\ \E p \in Ptrs, r \in Ranges :
        Returns(Call("bool_op", View(p, r), NoView, NoView, 0, FALSE),
                bool_op(mem, p, r[1], r[2]))

BoolOpN ==
    /\ Idle
    /\ \E p \in Ptrs, n \in 1 .. BufBits :
        Returns(Call("bool_op_n", View(p, <<0, n>>), NoView, NoView, 0, FALSE),
                bool_opN(mem, p, n))

NextReduce == All \/ AllN \/ BoolOp \/ BoolOpN

\* bytes with every bit set, no bit set, and some bits set (83 has its low
\* bits set, 172 its low bits clear)
ReduceBytes == {0, 83, 172, 255}

SpecReduce == InitFrom(ReduceBytes) /\ [][NextReduce]_vars

---------------------------------------------------------------------------
(* shift_left and shift_right (range-qualified forms). *)

shift_left(st, block, start_bit, end_bit, by) ==
    IF st.err # "ok" \/ by = 0 THEN st
    ELSE IF by >= Sub(end_bit, start_bit)
    THEN fill(st, block, start_bit, end_bit, FALSE)
    ELSE fill(copy(st, block, Add(start_bit, by), end_bit,
                   block, start_bit, Sub(end_bit, by)),
              block, Sub(end_bit, by), end_bit, FALSE)

shift_right(st, block, start_bit, end_bit, by) ==
    IF st.err # "ok" \/ by = 0 THEN st
    ELSE IF by >= Sub(end_bit, start_bit)
    THEN fill(st, block, start_bit, end_bit, FALSE)
    ELSE fill(copy(st, block, start_bit, Sub(end_bit, by),
                   block, Add(start_bit, by), end_bit),
              block, start_bit, Add(start_bit, by), FALSE)

\* the largest shift amount drawn: one past the widest view
MaxBy == BufBits + 1

\* shift_left(V, by): v1 is V, i is by
ShiftLeft ==
    /\ Idle
    /\ \E p \in Ptrs, r \in Ranges, by \in 0 .. MaxBy :
        Does(Call("shift_left", View(p, r), NoView, NoView, by, FALSE),
             shift_left(St(mem), p, r[1], r[2], by))

ShiftRight ==
    /\ Idle
    /\ \E p \in Ptrs, r \in Ranges, by \in 0 .. MaxBy :
        Does(Call("shift_right", View(p, r), NoView, NoView, by, FALSE),
             shift_right(St(mem), p, r[1], r[2], by))

NextShift == ShiftLeft \/ ShiftRight

SpecShift == InitPair /\ [][NextShift]_vars

---------------------------------------------------------------------------
(* get, set and flip with any index, in range or not, in the range-qualified *)
(* and the whole-buffer forms.                                               *)

\* the value get(block, n, i) returns when its bounds validate
getN(m, block, n, i) ==
    BitOf(m[getPageN(block, n, i)], i % CHAR_SIZE) = 1

flipN(st, block, n, i) ==
    IF st.err # "ok" THEN st
    ELSE LET v == validateBoundsN(n, i) IN
         IF v # "ok" THEN [st EXCEPT !.err = v]
         ELSE [st EXCEPT !.mem[getPageN(block, n, i)] = XorMask(@, i % CHAR_SIZE)]

setN(st, block, n, i, b) ==
    IF st.err # "ok" THEN st
    ELSE LET v == validateBoundsN(n, i) IN
         IF v # "ok" THEN [st EXCEPT !.err = v]
         ELSE LET st1 == [st EXCEPT !.mem[getPageN(block, n, i)] =
                                        OrMask(@, i % CHAR_SIZE)]
              IN  IF b THEN st1 ELSE flipN(st1, block, n, i)

\* the indices drawn: every index of the widest view and as many past it
MaxIndex == 2 * BufBits - 1

\* the pointers from which bit MaxIndex still lies inside the memory
IndexPtrs == { p \in Ptrs : p + (MaxIndex \div CHAR_SIZE) < MemBytes }

GetAny ==
    /\ Idle
    /\ \E p \in IndexPtrs, r \in Ranges, i \in 0 .. BufBits :
        LET v == validateBounds(r[1], r[2], i) IN
        Returns(Call("get", View(p, r), NoView, NoView, i, FALSE),
                Rv(v = "ok" /\ get(mem, p, r[1], r[2], i), v))

SetAny ==
    /\ Idle
    /\ \E p \in IndexPtrs, r \in Ranges, i \in 0 .. BufBits, b \in BOOLEAN :
        Does(Call("set", View(p, r), NoView, NoView, i, b),
             set(St(mem), p, r[1], r[2], i, b))

FlipAny ==
    /\ Idle
    /\ \E p \in IndexPtrs, r \in Ranges, i \in 0 .. BufBits :
        Does(Call("flip", View(p, r), NoView, NoView, i, FALSE),
             flip(St(mem), p, r[1], r[2], i))

GetN ==
    /\ Idle
    /\ \E p \in IndexPtrs, n \in 1 .. BufBits, i \in 0 .. BufBits :
        LET v == validateBoundsN(n, i) IN
        Returns(Call("get_n", View(p, <<0, n>>), NoView, NoView, i, FALSE),
                Rv(v = "ok" /\ getN(mem, p, n, i), v))

SetN ==
    /\ Idle
    /\ \E p \in IndexPtrs, n \in 1 .. BufBits, i \in 0 .. BufBits, b \in BOOLEAN :
        Does(Call("set_n", View(p, <<0, n>>), NoView, NoView, i, b),
             setN(St(mem), p, n, i, b))

FlipN ==
    /\ Idle
    /\ \E p \in IndexPtrs, n \in 1 .. BufBits, i \in 0 .. BufBits :
        Does(Call("flip_n", View(p, <<0, n>>), NoView, NoView, i, FALSE),
             flipN(St(mem), p, n, i))

NextIndex == GetAny \/ SetAny \/ FlipAny \/ GetN \/ SetN \/ FlipN

SpecIndex == InitPair /\ [][NextIndex]_vars

---------------------------------------------------------------------------
(* The multi-bit functions on any pair (start_bit, end_bit), the pairs with *)
(* start_bit >= end_bit included, and the whole-buffer forms with n = 0.    *)
(* All views of such a call lie in one buffer.                              *)

\* every pair of bit positions of a buffer, and those on a grid of 4
AnyRanges == (0 .. BufBits) \X (0 .. BufBits)
GridRanges == { r \in AnyRanges : r[1] % 4 = 0 /\ r[2] % 4 = 0 }

\* the shift amounts drawn for these calls
SmallBy == 0 .. 2

FillOn(R) ==
    /\ Idle
    /\ \E p \in Ptrs, r \in R, b \in BOOLEAN :
        Does(Call("fill", View(p, r), NoView, NoView, 0, b),
             fill(St(mem), p, r[1], r[2], b))

\* fill(src, 0, b)
FillZero ==
    /\ Idle
    /\ \E p \in Ptrs, b \in BOOLEAN :
        Does(Call("fill_n", View(p, <<0, 0>>), NoView, NoView, 0, b),
             fillN(St(mem), p, 0, b))

CopyOn(R) ==
    /\ Idle
    /\ \E p \in Ptrs, rs \in R, rd \in R :
        Does(Call("copy", View(p, rs), View(p, rd), NoView, 0, FALSE),
             copy(St(mem), p, rs[1], rs[2], p, rd[1], rd[2]))

BitwiseNotOn(R) ==
    /\ Idle
    /\ \E p \in Ptrs, rs \in R, rd \in R :
        Does(Call("not", View(p, rs), View(p, rd), NoView, 0, FALSE),
             bitwise_not(St(mem), p, rs[1], rs[2], p, rd[1], rd[2]))

NotInPlaceOn(R) ==
    /\ Idle
    /\ \E p \in Ptrs, r \in R :
        Does(Call("not_v", View(p, r), NoView, NoView, 0, FALSE),
             bitwise_not_inplace(St(mem), p, r[1], r[2]))

ShiftLeftOn(R) ==
    /\ Idle
    /\ \E p \in Ptrs, r \in R, by \in SmallBy :
        Does(Call("shift_left", View(p, r), NoView, NoView, by, FALSE),
             shift_left(St(mem), p, r[1], r[2], by))

ShiftRightOn(R) ==
    /\ Idle
    /\ \E p \in Ptrs, r \in R, by \in SmallBy :
        Does(Call("shift_right", View(p, r), NoView, NoView, by, FALSE),
             shift_right(St(mem), p, r[1], r[2], by))

AllOn(R) ==
    /\ Idle
    /\ \E p \in Ptrs, r \in R :
        Returns(Call("all", View(p, r), NoView, NoView, 0, FALSE),
                all(mem, p, r[1], r[2]))

\* all(block, 0)
AllZero ==
    /\ Idle
    /\ \E p \in Ptrs :
        Returns(Call("all_n", View(p, <<0, 0>>), NoView, NoView, 0, FALSE),
                allN(mem, p, 0))

BoolOpOn(R) ==
    /\ Idle
    /\ \E p \in Ptrs, r \in R :
        Returns(Call("bool_op", View(p, r), NoView, NoView, 0, FALSE),
                bool_op(mem, p, r[1], r[2]))

\* bool_op(src, 0)
BoolOpZero ==
    /\ Idle
    /\ \E p \in Ptrs :
        Returns(Call("bool_op_n", View(p, <<0, 0>>), NoView, NoView, 0, FALSE),
                bool_opN(mem, p, 0))

CompareOn(R) ==
    /\ Idle
    /\ \E p \in Ptrs, rl \in R, rr \in R :
        Returns(Call("compare", View(p, rl), View(p, rr), NoView, 0, FALSE),
                compare(mem, p, rl[1], rl[2], p, rr[1], rr[2]))

\* compare(left, right, 0)
CompareZero ==
    /\ Idle
    /\ \E t \in PtrPairs :
        Returns(Call("compare_n", View(t[1], <<0, 0>>), View(t[2], <<0, 0>>), NoView, 0, FALSE),
                compareN(mem, t[1], t[2], 0))

NextAnyBounds ==
    \/ FillOn(AnyRanges) \/ FillZero
    \/ CopyOn(GridRanges)
    \/ BitwiseAnd(SamePtr, GridRanges)
    \/ BitwiseOr(SamePtr, GridRanges)
    \/ BitwiseXor(SamePtr, GridRanges)
    \/ BitwiseNotOn(GridRanges) \/ NotInPlaceOn(AnyRanges)
    \/ ShiftLeftOn(AnyRanges) \/ ShiftRightOn(AnyRanges)
    \/ AllOn(AnyRanges) \/ AllZero
    \/ BoolOpOn(AnyRanges) \/ BoolOpZero
    \/ CompareOn(GridRanges) \/ CompareZero

SpecAnyBounds == InitAlias /\ [][NextAnyBounds]_vars

---------------------------------------------------------------------------
(* Text: str writes one character per bit of a view, from_str reads them    *)
(* back.  A text is a sequence of one-character strings.                    *)

\* the loop of str(src, start_bit, end_bit, os): operator<< of a bool writes
\* "1" or "0"; a throwing get leaves the caller without a text
RECURSIVE strLoop(_, _, _, _, _, _)
strLoop(m, src, start_bit, end_bit, i, os) ==
    IF ~(i < Sub(end_bit, start_bit)) THEN Rv(os, "ok")
    ELSE LET v == validateBounds(start_bit, end_bit, i) IN
         IF v # "ok" THEN Rv(<<>>, v)
         ELSE strLoop(m, src, start_bit, end_bit, i + 1,
                      Append(os, IF get(m, src, start_bit, end_bit, i) THEN "1" ELSE "0"))

str(m, src, start_bit, end_bit) ==
    IF Sub(end_bit, start_bit) = 0 THEN Rv(<<>>, "ok")
    ELSE strLoop(m, src, start_bit, end_bit, 0, <<>>)

\* what the throw statement of from_str can do: its message is the literal
\* advanced by the character's code, a pointer past the literal, so building
\* the exception reads whatever lies there or faults
BadCharOutcomes == {"invalid_argument", "crash"}

\* the loop of from_str, from character i on; u is the outcome of the throw
RECURSIVE fromStrLoop(_, _, _, _, _, _, _, _)
fromStrLoop(st, block, start_bit, end_bit, s, i, min_n, u) ==
    IF st.err # "ok" \/ ~(i < min_n) THEN st
    ELSE LET c == s[i + 1] IN
         IF c = "0"
         THEN fromStrLoop(set(st, block, start_bit, end_bit, i, FALSE),
                          block, start_bit, end_bit, s, i + 1, min_n, u)
         ELSE IF c = "1"
         THEN fromStrLoop(set(st, block, start_bit, end_bit, i, TRUE),
                          block, start_bit, end_bit, s, i + 1, min_n, u)
         ELSE [st EXCEPT !.err = u]

from_str(st, block, start_bit, end_bit, s, u) ==
    fromStrLoop(st, block, start_bit, end_bit, s, 0,
                IF Sub(end_bit, start_bit) < Len(s) THEN Sub(end_bit, start_bit) ELSE Len(s),
                u)

\* the texts given to from_str: up to MaxText characters, "x" being a
\* character that is neither '0' nor '1'
MaxText == 3
Chars == {"0", "1", "x"}
Texts == UNION { [1 .. n -> Chars] : n \in 0 .. MaxText }

\* str(V); ret is the text returned
Str ==
    /\ Idle
    /\ \E p \in Ptrs, r \in Ranges :
        Returns(Call("str", View(p, r), NoView, NoView, 0, FALSE),
                str(mem, p, r[1], r[2]))

\* from_str(V, s) with s the text str(V) has just returned; old keeps the
\* contents from before
FromStrBack ==
    /\ call.op = "str"
    /\ err = "ok"
    /\ \E u \in BadCharOutcomes :
       LET st == from_str(St(mem), call.v1.p, call.v1.s, call.v1.e, ret, u) IN
        /\ mem'  = st.mem
        /\ err'  = st.err
        /\ call' = [call EXCEPT !.op = "str_from_str"]
        /\ UNCHANGED <<old, ret>>

\* from_str(V, s) on an untouched memory; ret records the text s given
FromStr ==
    /\ Idle
    /\ \E p \in Ptrs, r \in Ranges, s \in Texts, u \in BadCharOutcomes :
       LET st == from_str(St(mem), p, r[1], r[2], s, u) IN
        /\ mem'  = st.mem
        /\ old'  = mem
        /\ call' = Call("from_str", View(p, r), NoView, NoView, 0, FALSE)
        /\ ret'  = s
        /\ err'  = st.err

NextText == Str \/ FromStrBack \/ FromStr

SpecText == InitAlias /\ [][NextText]_vars

---------------------------------------------------------------------------
(* The byte count of a bit count, in the two C++11 copies of the library.   *)

\* size(n) of the older copy of the library
size_wotd(n) ==
    IF n <= CHAR_SIZE THEN 1
    ELSE (n \div CHAR_SIZE) + (n % CHAR_SIZE)

\* the bit counts asked about
MaxBits == 64
BitCounts == 1 .. MaxBits

\* size(n); call.i is n, ret the byte count
Size ==
    /\ Idle
    /\ \E n \in BitCounts :
        Returns(Call("size", NoView, NoView, NoView, n, FALSE), Rv(size(n), "ok"))

SizeWotd ==
    /\ Idle
    /\ \E n \in BitCounts :
        Returns(Call("size_wotd", NoView, NoView, NoView, n, FALSE), Rv(size_wotd(n), "ok"))

NextSize == Size \/ SizeWotd

SpecSize == InitAlias /\ [][NextSize]_vars

\* calloc(num, sz): a fresh block of num * sz zero bytes; the byte at offset
\* a of the block is element a + 1 of the sequence
RECURSIVE zeroBytes(_)
zeroBytes(k) == IF k = 0 THEN <<>> ELSE Append(zeroBytes(k - 1), 0)

calloc(num, sz) == zeroBytes(num * sz)

create(n) == calloc(size(n), 1)

\* create() of the class BitUtils<n>
create17(n) == calloc(size17(n), 1)

\* create(n); call.i is n, ret the block returned
Create ==
    /\ Idle
    /\ \E n \in BitCounts :
        Returns(Call("create", NoView, NoView, NoView, n, FALSE), Rv(create(n), "ok"))

Create17 ==
    /\ Idle
    /\ \E n \in BitCounts :
        Returns(Call("create17", NoView, NoView, NoView, n, FALSE), Rv(create17(n), "ok"))

NextCreate == Create \/ Create17

SpecCreate == InitAlias /\ [][NextCreate]_vars

---------------------------------------------------------------------------
(* Whole-buffer bitwise_and / bitwise_or / bitwise_xor (left, right, dst, n): *)
(* one byte at a time.                                                        *)

\* bits k .. CHAR_SIZE - 1 of the byte a op b
RECURSIVE byteOpFrom(_, _, _, _)
byteOpFrom(op, a, b, k) ==
    IF k >= CHAR_SIZE THEN 0
    ELSE (IF Combine(op, BitOf(a, k) = 1, BitOf(b, k) = 1) THEN 2 ^ k ELSE 0)
         + byteOpFrom(op, a, b, k + 1)

\* the mutant of byteOp that loses bit 0 of the result
byteOp_high(op, a, b) == byteOpFrom(op, a, b, 1)

\* a & b, a | b, a ^ b on unsigned chars
byteOp(op, a, b) == byteOpFrom(op, a, b, 0)

\* for (i = 0; i < n; i += CHAR_SIZE) *getPage(dst, n, i) = *getPage(left, n, i) op *getPage(right, n, i)
RECURSIVE bitwiseNLoop(_, _, _, _, _, _, _)
bitwiseNLoop(st, op, left, right, dst, n, i) ==
    IF st.err # "ok" \/ ~(i < n) THEN st
    ELSE LET v == validateBoundsN(n, i) IN
         IF v # "ok" THEN [st EXCEPT !.err = v]
         ELSE bitwiseNLoop(
                [st EXCEPT !.mem[getPageN(dst, n, i)] =
                    byteOp(op, st.mem[getPageN(left, n, i)], st.mem[getPageN(right, n, i)])],
                op, left, right, dst, n, i + CHAR_SIZE)

bitwise_andN(st, left, right, dst, n) ==
    IF left = right
    THEN IF left = dst THEN st ELSE copy(st, left, 0, n, dst, 0, n)
    ELSE bitwiseNLoop(st, "and", left, right, dst, n, 0)

bitwise_orN(st, left, right, dst, n) ==
    IF left = right
    THEN IF left = dst THEN st ELSE copy(st, left, 0, n, dst, 0, n)
    ELSE bitwiseNLoop(st, "or", left, right, dst, n, 0)

bitwise_xorN(st, left, right, dst, n) ==
    IF left = right
    THEN fillN(st, dst, n, FALSE)
    ELSE bitwiseNLoop(st, "xor", left, right, dst, n, 0)

\* the calls name any three buffers, the same one twice or three times
\* included; call.i is n and the three views recorded are [0, n)
AllTriples == Ptrs \X Ptrs \X Ptrs

WholeCall(op, t, n) ==
    Call(op, View(t[1], <<0, n>>), View(t[2], <<0, n>>), View(t[3], <<0, n>>), n, FALSE)

BitwiseAndN ==
    /\ Idle
    /\ \E t \in AllTriples, n \in 0 .. BufBits :
        Does(WholeCall("and_n", t, n), bitwise_andN(St(mem), t[1], t[2], t[3], n))

BitwiseOrN ==
    /\ Idle
    /\ \E t \in AllTriples, n \in 0 .. BufBits :
        Does(WholeCall("or_n", t, n), bitwise_orN(St(mem), t[1], t[2], t[3], n))

BitwiseXorN ==
    /\ Idle
    /\ \E t \in AllTriples, n \in 0 .. BufBits :
        Does(WholeCall("xor_n", t, n), bitwise_xorN(St(mem), t[1], t[2], t[3], n))

NextBitwiseN == BitwiseAndN \/ BitwiseOrN \/ BitwiseXorN

SpecBitwiseN == Init /\ [][NextBitwiseN]_vars

---------------------------------------------------------------------------
(* Whole-buffer compare(left, right, n). *)

\* compare(left, right, n): v1 and v2 record [0, n) of left and right,
\* call.i is n, ret the sign of the value returned
CompareN ==
    /\ Idle
    /\ \E t \in PtrPairs, n \in 0 .. BufBits :
        Returns(Call("compare_n", View(t[1], <<0, n>>), View(t[2], <<0, n>>), NoView, n, FALSE),
                compareN(mem, t[1], t[2], n))

NextCompareN == CompareN

SpecCompareN == InitPair /\ [][NextCompareN]_vars

---------------------------------------------------------------------------
(* The overlap detector on its own. *)

\* do_bounds_overlap<BitUtils_left, BitUtils_right>(left, right) of the class
do_bounds_overlap17(left, left_start_bit, left_end_bit, right, right_start_bit, right_end_bit) ==
    \/ left + (left_end_bit - left_start_bit) >= right
    \/ right + (right_end_bit - right_start_bit) >= left

AllPairs == Ptrs \X Ptrs

\* do_bounds_overlap(left view, right view); ret is the answer
Overlap ==
    /\ Idle
    /\ \E t \in AllPairs, rl \in EvenRanges, rr \in EvenRanges :
        Returns(Call("overlap", View(t[1], rl), View(t[2], rr), NoView, 0, FALSE),
                Rv(do_bounds_overlap(t[1], rl[1], rl[2], t[2], rr[1], rr[2]), "ok"))

Overlap17 ==
    /\ Idle
    /\ \E t \in AllPairs, rl \in EvenRanges, rr \in EvenRanges :
        Returns(Call("overlap17", View(t[1], rl), View(t[2], rr), NoView, 0, FALSE),
                Rv(do_bounds_overlap17(t[1], rl[1], rl[2], t[2], rr[1], rr[2]), "ok"))

NextOverlap == Overlap \/ Overlap17

SpecOverlap == InitAlias /\ [][NextOverlap]_vars

---------------------------------------------------------------------------
(* Whole-buffer copy(src, dst, n).                                           *)

\* size(start_bit, end_bit)
sizeOfRange(start_bit, end_bit) == size(start_bit) + size(Sub(end_bit, start_bit))

\* memcpy_s(dst, count, src, count) on regions that do not overlap
memcpy_s(st, dst, src, count) ==
    [st EXCEPT !.mem = [a \in Addrs |->
        IF a >= dst /\ a < dst + count THEN st.mem[src + (a - dst)] ELSE st.mem[a]]]

\* copy(src, dst, start_bit, end_bit).  The branch for gcc names a variable n
\* that the function does not have and does not compile; the branch that
\* builds is the memcpy_s one
copyWhole(st, src, dst, start_bit, end_bit) ==
    IF src = dst THEN st
    ELSE LET v == validateBounds(start_bit, end_bit, 0) IN
         IF v # "ok" THEN [st EXCEPT !.err = v]
         ELSE memcpy_s(st, dst, src, sizeOfRange(start_bit, end_bit))

copyN(st, src, dst, n) == copyWhole(st, src, dst, 0, n)

\* the bit counts whose copy stays inside the two buffers named
CopyCounts(src, dst) ==
    { n \in 0 .. BufBits : src # dst => sizeOfRange(0, n) <= BufBytes }

\* copy(src, dst, n): v1 records [0, n) of src, v2 of dst, call.i is n
CopyN ==
    /\ Idle
    /\ \E t \in PtrPairs :
       \E n \in CopyCounts(t[1], t[2]) :
        Does(Call("copy_n", View(t[1], <<0, n>>), View(t[2], <<0, n>>), NoView, n, FALSE),
             copyN(St(mem), t[1], t[2], n))

NextCopyN == CopyN

SpecCopyN == InitPair /\ [][NextCopyN]_vars

---------------------------------------------------------------------------
(* for_each_byte and for_each_bit (begin, end, f), one pass of the outer     *)
(* loop per step.  call.v1.p is begin and call.v2.p is end; ret holds the    *)
(* iterator it and the places handed to f so far: byte addresses for         *)
(* for_each_byte, bit positions (address * CHAR_SIZE + index) for            *)
(* for_each_bit.                                                             *)

\* begin and end point at a byte of the memory or one past its last byte
EndPtrs == 0 .. MemBytes

\* bool reverse = begin > end
reverse(begin, end) == begin > end

\* the initialisation of the loop: it = reverse ? end : begin
forEachInit(begin, end) ==
    [it |-> IF reverse(begin, end) THEN end ELSE begin, seen |-> <<>>]

\* the loop condition: it != (reverse ? begin : end)
forEachRuns(begin, end, it) == it # (IF reverse(begin, end) THEN begin ELSE end)

\* it += reverse ? -1 : 1
forEachAdvance(begin, end, it) == IF reverse(begin, end) THEN it - 1 ELSE it + 1

\* the body of for_each_byte: f(reverse ? it - 1 : it)
byteVisited(begin, end, it) == IF reverse(begin, end) THEN it - 1 ELSE it

\* the body of for_each_bit: f(get(it, CHAR_SIZE, reverse ? i - 1 : i)) for
\* i from CHAR_SIZE down to 1, or from 0 up to CHAR_SIZE - 1; all of byte it
bitsVisited(begin, end, it) ==
    [k \in 1 .. CHAR_SIZE |->
        it * CHAR_SIZE + (IF reverse(begin, end) THEN CHAR_SIZE - k ELSE k - 1)]

ForEachStart(op) ==
    /\ Idle
    /\ \E begin \in EndPtrs, end \in EndPtrs :
        /\ call' = Call(op, View(begin, <<0, 0>>), View(end, <<0, 0>>), NoView, 0, FALSE)
        /\ ret'  = forEachInit(begin, end)
        /\ mem'  = mem
        /\ old'  = mem
        /\ err'  = "ok"

ForEachByte == ForEachStart("for_each_byte")

ForEachBit == ForEachStart("for_each_bit")

\* one pass of the loop of for_each_byte; a byte outside the memory modelled
\* is not followed further: err records that the loop went there
ForEachByteStep ==
    /\ call.op = "for_each_byte"
    /\ err = "ok"
    /\ forEachRuns(call.v1.p, call.v2.p, ret.it)
    /\ LET a == byteVisited(call.v1.p, call.v2.p, ret.it) IN
        IF a \in Addrs
        THEN /\ ret' = [it   |-> forEachAdvance(call.v1.p, call.v2.p, ret.it),
                        seen |-> Append(ret.seen, a)]
             /\ err' = err
        ELSE /\ ret' = ret
             /\ err' = "outside_memory"
    /\ UNCHANGED <<mem, old, call>>

\* one pass of the outer loop of for_each_bit
ForEachBitStep ==
    /\ call.op = "for_each_bit"
    /\ err = "ok"
    /\ forEachRuns(call.v1.p, call.v2.p, ret.it)
    /\ IF ret.it \in Addrs
       THEN /\ ret' = [it   |-> forEachAdvance(call.v1.p, call.v2.p, ret.it),
                       seen |-> ret.seen \o bitsVisited(call.v1.p, call.v2.p, ret.it)]
            /\ err' = err
       ELSE /\ ret' = ret
            /\ err' = "outside_memory"
    /\ UNCHANGED <<mem, old, call>>

\* the loop condition fails and the function returns
ForEachReturn ==
    /\ call.op \in {"for_each_byte", "for_each_bit"}
    /\ err = "ok"
    /\ ~forEachRuns(call.v1.p, call.v2.p, ret.it)
    /\ call' = [call EXCEPT !.op = IF @ = "for_each_byte" THEN "for_each_byte_done"
                                                         ELSE "for_each_bit_done"]
    /\ UNCHANGED <<mem, old, ret, err>>

ForEachRun == ForEachByteStep \/ ForEachBitStep \/ ForEachReturn

NextForEach == ForEachByte \/ ForEachBit \/ ForEachRun

\* before any call: nothing handed to f, the memories of InitAlias
InitForEach ==
    /\ mem \in { InitMem(k) : k \in 0 .. MaxAliasSeed }
    /\ old = mem
    /\ call = Call("none", NoView, NoView, NoView, 0, FALSE)
    /\ ret = forEachInit(0, 0)
    /\ err = "ok"

SpecForEach == InitForEach /\ [][NextForEach]_vars

\* a call that has started keeps executing: the loop is straight-line code of
\* one thread
SpecForEachFair == SpecForEach /\ WF_vars(ForEachRun)

Next ==
    \/ NextAccess \/ NextFill \/ NextCopy \/ NextBitwise \/ NextAlias \/ NextNot
    \/ NextNotTwice \/ NextCompare \/ NextEquals \/ NextReduce \/ NextShift
    \/ NextIndex \/ NextAnyBounds
    \/ NextText
    \/ NextSize \/ NextCreate
    \/ NextBitwiseN
    \/ NextCompareN
    \/ NextOverlap
    \/ NextCopyN
    \/ NextForEach

Spec == Init /\ [][Next]_vars

---------------------------------------------------------------------------
(* Reference reading of the memory, used to state the claims: bit k of the *)
(* buffer at pointer p is bit (k mod 8) of the byte at p + k div 8.        *)

AbsBit(m, p, k) == BitOf(m[p + (k \div CHAR_SIZE)], k % CHAR_SIZE) = 1

\* all (pointer, bit) positions of the memory, as global bit numbers
MemBits == 0 .. (MemBytes * CHAR_SIZE - 1)
MemBit(m, g) == AbsBit(m, 0, g)
Glob(p, k) == p * CHAR_SIZE + k

\* the memory outside the global bit positions G is as it was before the call
SameOutside(G) == \A g \in MemBits \ G : MemBit(mem, g) = MemBit(old, g)

\* the global positions of the bits [lo, hi) of the buffer at p
Span(p, lo, hi) == { Glob(p, k) : k \in lo .. (hi - 1) }

---------------------------------------------------------------------------
(* Claims about get, set, flip (SpecAccess). *)

\* C1: get(view, i) returns the bit stored at byte (i + start_bit) / 8,
\* in-byte offset (i + start_bit) mod 8 of the buffer, for every valid view
\* and index, views of width 8 that do not start at bit 0 included.
C1_GetReadsAddressedBit ==
    (call.op = "get" /\ err = "ok")
        => ret = AbsBit(old, call.v1.p, call.v1.s + call.i)

\* C2: after set(view, i, b), get(view, i) = b and every other bit of the
\* memory, inside and outside the view, is unchanged.
C2_SetWritesOnlyAddressedBit ==
    (call.op = "set" /\ err = "ok")
        => /\ get(mem, call.v1.p, call.v1.s, call.v1.e, call.i) = call.b
           /\ SameOutside({Glob(call.v1.p, call.v1.s + call.i)})

---------------------------------------------------------------------------
(* Claims about fill (SpecFill). *)

\* C3: after the range-qualified fill(buffer, start_bit, end_bit, b) every
\* bit at an absolute position in [start_bit, end_bit) equals b and every
\* bit outside that range keeps its value.
C3_FillRangeExact ==
    (call.op = "fill" /\ err = "ok")
        => /\ \A k \in call.v1.s .. (call.v1.e - 1) :
                  AbsBit(mem, call.v1.p, k) = call.b
           /\ SameOutside(Span(call.v1.p, call.v1.s, call.v1.e))

\* the recorded call is a whole-buffer fill with n not a multiple of 8
SoftFill == call.op = "fill_n" /\ err = "ok" /\ call.v1.e % CHAR_SIZE # 0

---------------------------------------------------------------------------
(* Claims about copy (SpecCopy). *)

\* min_n of the recorded call's first two, and of its three, views
MinN2 == Min(Width(call.v1), Width(call.v2))
MinN3 == Min(MinN2, Width(call.v3))

\* the bit ranges of two views intersect
Meet(v, w) == v.s < w.e /\ w.s < v.e

\* C5: for src and dst views of the same memory whose bit ranges overlap,
\* after copy(src, dst) the first min_n bits of dst equal the first min_n
\* bits src held before the call.
C5_CopyAliased ==
    (/\ call.op = "copy" /\ err = "ok"
     /\ call.v1.p = call.v2.p /\ Meet(call.v1, call.v2))
        => \A i \in 0 .. (MinN2 - 1) :
               AbsBit(mem, call.v2.p, call.v2.s + i)
                   = AbsBit(old, call.v1.p, call.v1.s + i)

\* C6: copy(src, dst) writes only the first min_n bits of the dst view; every
\* other bit of the memory (the rest of the dst buffer, and src when it is
\* another buffer) keeps its value.
C6_CopyFrame ==
    (call.op = "copy" /\ err = "ok")
        => SameOutside(Span(call.v2.p, call.v2.s, call.v2.s + MinN2))

---------------------------------------------------------------------------
(* Claims about bitwise_and, bitwise_or, bitwise_xor, bitwise_not. *)

Combinator == call.op \in {"and", "or", "xor"} /\ err = "ok"

\* dst bit i is left bit i <op> right bit i, on the contents before the call
CombinedFromOld ==
    \A i \in 0 .. (MinN3 - 1) :
        AbsBit(mem, call.v3.p, call.v3.s + i)
            = Combine(call.op, AbsBit(old, call.v1.p, call.v1.s + i),
                               AbsBit(old, call.v2.p, call.v2.s + i))

\* C7 (SpecBitwise): with left, right and dst in three different buffers,
\* dst bit i = left bit i <op> right bit i for i < min_n, and every other bit
\* of the memory (the rest of dst, left, right) is unchanged.
C7_CombineDistinctBuffers ==
    (/\ Combinator
     /\ call.v1.p # call.v2.p /\ call.v1.p # call.v3.p /\ call.v2.p # call.v3.p)
        => /\ CombinedFromOld
           /\ SameOutside(Span(call.v3.p, call.v3.s, call.v3.s + MinN3))

\* C8 (SpecAlias): on three views of one buffer whose bit ranges overlap,
\* dst bit i = left bit i <op> right bit i, evaluated on the contents from
\* before the call, for i < min_n.
C8_CombineAliased ==
    (/\ Combinator
     /\ call.v1.p = call.v2.p /\ call.v1.p = call.v3.p
     /\ Meet(call.v1, call.v2) /\ Meet(call.v1, call.v3) /\ Meet(call.v2, call.v3))
        => CombinedFromOld

\* C9 (SpecAlias): bitwise_xor(V, V, V) leaves every bit of V clear and every
\* bit outside V unchanged.
C9_XorSelfZero ==
    (/\ call.op = "xor" /\ err = "ok"
     /\ call.v1 = call.v2 /\ call.v1 = call.v3)
        => /\ \A k \in call.v1.s .. (call.v1.e - 1) : ~AbsBit(mem, call.v1.p, k)
           /\ SameOutside(Span(call.v1.p, call.v1.s, call.v1.e))

\* C10 (SpecNot): for src and dst that are not the identical view, after
\* bitwise_not(src, dst) dst bit i is the negation of the value src bit i
\* held before the call, for i < min_n.
C10_NotComputesComplement ==
    (call.op = "not" /\ err = "ok" /\ call.v1 # call.v2)
        => \A i \in 0 .. (MinN2 - 1) :
               AbsBit(mem, call.v2.p, call.v2.s + i)
                   = ~AbsBit(old, call.v1.p, call.v1.s + i)

---------------------------------------------------------------------------
(* Claims about the in-place bitwise_not (SpecNotTwice). *)

\* C11: the in-place bitwise_not(V) inverts exactly the bits of V and no bit
\* outside it, and applying it a second time restores the whole memory.
C11_NotInPlaceSelfInverse ==
    /\ (call.op = "not_v" /\ err = "ok")
           => /\ \A k \in call.v1.s .. (call.v1.e - 1) :
                     AbsBit(mem, call.v1.p, k) = ~AbsBit(old, call.v1.p, k)
              /\ SameOutside(Span(call.v1.p, call.v1.s, call.v1.e))
    /\ (call.op = "not_vv" /\ err = "ok") => mem = old

---------------------------------------------------------------------------
(* Claims about compare (SpecCompare). *)

\* the local indices below min_n at which the two views of the recorded call
\* held different bits before the call
Differ ==
    { i \in 0 .. (MinN2 - 1) :
        AbsBit(old, call.v1.p, call.v1.s + i) # AbsBit(old, call.v2.p, call.v2.s + i) }

\* the smallest element of a non-empty set of numbers
Least(S) == CHOOSE x \in S : \A y \in S : x <= y

\* C12: the range-qualified compare(left, right) returns 0 when the first
\* min_n bits of the two views are identical, and otherwise +1 if left's bit
\* is set at the first differing index and -1 if right's is; bits past the
\* common range do not matter and the value is in {-1, 0, 1}.
C12_CompareFirstDifference ==
    (call.op = "compare" /\ err = "ok")
        => /\ ret \in {-1, 0, 1}
           /\ ret = IF Differ = {} THEN 0
                    ELSE IF AbsBit(old, call.v1.p, call.v1.s + Least(Differ))
                         THEN 1 ELSE -1

---------------------------------------------------------------------------
(* Claims about equals (SpecEquals). *)

\* what compare returns on the views of the recorded equals call
CompareOfCall ==
    CASE call.op = "equals" ->
            compare(old, call.v1.p, call.v1.s, call.v1.e,
                    call.v2.p, call.v2.s, call.v2.e).ret
      [] call.op = "equals_n" ->
            compareN(old, call.v1.p, call.v2.p, call.v1.e).ret
      [] call.op = "equals17" ->
            compare17(old, call.v1.p, call.v2.p, call.v1.e).ret

\* C13: equals(left, right) is true iff compare(left, right) is 0, that is
\* iff the two views hold identical bits over the common range, in the
\* range-qualified form, the whole-buffer form and the C++17 class.
C13_EqualsIffCompareZero ==
    (call.op \in {"equals", "equals_n", "equals17"} /\ err = "ok")
        => /\ ret = (CompareOfCall = 0)
           /\ ret = (Differ = {})

---------------------------------------------------------------------------
(* Claims about all and bool_op (SpecReduce). *)

\* the bits of the recorded call's view, as they were before the call
ViewBits == { AbsBit(old, call.v1.p, k) : k \in call.v1.s .. (call.v1.e - 1) }

\* C14: all(view) is true iff every bit of the view is set, whatever the
\* bits outside the view hold, the trailing bits past n of the whole-buffer
\* form included.
C14_AllIffEveryBitSet ==
    (call.op \in {"all", "all_n"} /\ err = "ok")
        => ret = (FALSE \notin ViewBits)

\* C15: bool_op(view) is true iff at least one bit of the view is set,
\* whatever the bits outside the view hold, the trailing bits past n of the
\* whole-buffer form included.
C15_BoolOpIffSomeBitSet ==
    (call.op \in {"bool_op", "bool_op_n"} /\ err = "ok")
        => ret = (TRUE \in ViewBits)

---------------------------------------------------------------------------
(* Claims about shift_left and shift_right (SpecShift). *)

\* bit i of the recorded call's view, in memory m
VBit(m, i) == AbsBit(m, call.v1.p, call.v1.s + i)

\* the recorded call is a shift by an amount strictly inside the view
InnerShift(op) ==
    call.op = op /\ err = "ok" /\ 0 < call.i /\ call.i < Width(call.v1)

\* nothing outside the recorded call's view has changed
FrameOfView == SameOutside(Span(call.v1.p, call.v1.s, call.v1.e))

\* C16: after shift_left(V, by) with 0 < by < w, V[i] is the old V[i + by]
\* for i < w - by, V[i] is 0 for w - by <= i < w, and no bit outside V has
\* changed.
C16_ShiftLeftMovesDown ==
    InnerShift("shift_left")
        => /\ \A i \in 0 .. (Width(call.v1) - call.i - 1) :
                  VBit(mem, i) = VBit(old, i + call.i)
           /\ \A i \in (Width(call.v1) - call.i) .. (Width(call.v1) - 1) :
                  ~VBit(mem, i)
           /\ FrameOfView

\* C17: after shift_right(V, by) with 0 < by < w, V[i] is the old V[i - by]
\* for by <= i < w, V[i] is 0 for i < by, and no bit outside V has changed.
C17_ShiftRightMovesUp ==
    InnerShift("shift_right")
        => /\ \A i \in call.i .. (Width(call.v1) - 1) :
                  VBit(mem, i) = VBit(old, i - call.i)
           /\ \A i \in 0 .. (call.i - 1) : ~VBit(mem, i)
           /\ FrameOfView

\* C18: a shift by by >= width(V) clears every bit of V and changes nothing
\* outside V; a shift by 0 changes nothing at all.
C18_ShiftBoundary ==
    (call.op \in {"shift_left", "shift_right"} /\ err = "ok")
        => /\ call.i >= Width(call.v1)
                  => /\ \A i \in 0 .. (Width(call.v1) - 1) : ~VBit(mem, i)
                     /\ FrameOfView
           /\ call.i = 0 => mem = old

---------------------------------------------------------------------------
(* Claims about out-of-range indices (SpecIndex). *)

\* the recorded call is a get, set or flip, in either form
SingleBit == call.op \in {"get", "set", "flip", "get_n", "set_n", "flip_n"}

\* C19: get, set and flip on a valid view with a local index i >= width
\* (i >= n in the whole-buffer form) fail with out_of_range and leave the
\* memory exactly as it was.
C19_IndexPastViewFails ==
    (SingleBit /\ call.i >= Width(call.v1))
        => /\ err = "out_of_range"
           /\ mem = old

\* C19 witness: a set at the index just past its view, of the value the bit
\* at that position does not hold, has failed with out_of_range.
C19_Witness ==
    /\ call.op = "set"
    /\ call.i = Width(call.v1)
    /\ AbsBit(old, call.v1.p, call.v1.s + call.i) # call.b
    /\ err = "out_of_range"

---------------------------------------------------------------------------
(* Claims about invalid views (SpecAnyBounds). *)

\* a view with start_bit >= end_bit; n = 0 is recorded as the view [0, 0)
InvalidView(v) == v.s >= v.e

\* the multi-bit functions by the number of views they take
OneView == {"fill", "fill_n", "not_v", "shift_left", "shift_right",
            "all", "all_n", "bool_op", "bool_op_n"}
TwoViews == {"copy", "not", "compare", "compare_n"}
ThreeViews == {"and", "or", "xor"}

\* the recorded call is a multi-bit function given at least one invalid view
GivenInvalidView ==
    \/ call.op \in OneView /\ InvalidView(call.v1)
    \/ call.op \in TwoViews /\ (InvalidView(call.v1) \/ InvalidView(call.v2))
    \/ call.op \in ThreeViews
          /\ (InvalidView(call.v1) \/ InvalidView(call.v2) \/ InvalidView(call.v3))

\* C20: a multi-bit function given an invalid view (start_bit >= end_bit, or
\* n = 0 in a whole-buffer form) fails with invalid_argument and has written
\* no bit; it never returns normally.
C20_InvalidViewFails ==
    GivenInvalidView
        => /\ err = "invalid_argument"
           /\ mem = old

---------------------------------------------------------------------------
\* C21: str(V) has Width(V) characters, character k being "1" exactly when
\* bit k of V is set, and from_str(V, str(V)) leaves the memory as it was.
C21_StrRoundTrip ==
    /\ call.op \in {"str", "str_from_str"} => err = "ok"
    /\ call.op = "str" =>
         /\ Len(ret) = Width(call.v1)
         /\ \A k \in 0 .. (Width(call.v1) - 1) : (ret[k + 1] = "1") <=> VBit(old, k)
    /\ call.op = "str_from_str" => mem = old

---------------------------------------------------------------------------
\* C29: from_str(V, s) with a character that is neither "0" nor "1" at a
\* position k < min(Width(V), Len(s)) fails with the invalid-character error
\* and leaves the memory as it was before the call, whatever k is.
BadAt == { k \in 0 .. (Min(Width(call.v1), Len(ret)) - 1) : ret[k + 1] \notin {"0", "1"} }

C29_FromStrBadCharAtomic ==
    (call.op = "from_str" /\ BadAt # {}) =>
        /\ err = "invalid_argument"
        /\ mem = old

---------------------------------------------------------------------------
\* C22: size(n) is max(1, ceil(n / 8)) for every n >= 1, so size(n) * 8 >= n,
\* and size(n) * 8 - n < 8 for n >= 8; in both C++11 copies of the library.
CeilDiv(n, d) == (n + d - 1) \div d

ByteSize(n) == IF CeilDiv(n, CHAR_SIZE) < 1 THEN 1 ELSE CeilDiv(n, CHAR_SIZE)

C22_SizeIsCeiling ==
    call.op \in {"size", "size_wotd"} =>
        /\ ret = ByteSize(call.i)
        /\ ret * CHAR_SIZE >= call.i
        /\ call.i >= CHAR_SIZE => ret * CHAR_SIZE - call.i < CHAR_SIZE

---------------------------------------------------------------------------
\* C23: the block create(n) returns is zero-filled and holds at least n
\* bits: every index i < n has its byte inside the block and reads as false;
\* for create(n) and for create() of the class BitUtils<n>.
PageOfCreated(i) ==
    IF call.op = "create" THEN getPageN(0, call.i, i) ELSE getPage17(0, call.i, i)

C23_CreateHoldsNBits ==
    call.op \in {"create", "create17"} =>
        /\ Len(ret) * CHAR_SIZE >= call.i
        /\ \A a \in 1 .. Len(ret) : ret[a] = 0
        /\ \A i \in 0 .. (call.i - 1) :
             /\ PageOfCreated(i) < Len(ret)
             /\ BitOf(ret[PageOfCreated(i) + 1], i % CHAR_SIZE) = 0

---------------------------------------------------------------------------
\* C24: for n a positive multiple of 8, the whole-buffer bitwise_and,
\* bitwise_or and bitwise_xor (left, right, dst, n) end in the memory and the
\* outcome of the range-qualified forms given [0, n) on all three views, also
\* when two or all three pointers are the same.
RangeForm ==
    LET l == call.v1.p
        r == call.v2.p
        d == call.v3.p
        n == call.i
    IN  CASE call.op = "and_n" -> bitwise_and(St(old), l, 0, n, r, 0, n, d, 0, n)
          [] call.op = "or_n"  -> bitwise_or(St(old), l, 0, n, r, 0, n, d, 0, n)
          [] call.op = "xor_n" -> bitwise_xor(St(old), l, 0, n, r, 0, n, d, 0, n)

WholeBitwise == call.op \in {"and_n", "or_n", "xor_n"} /\ call.i > 0 /\ call.i % CHAR_SIZE = 0

C24_WholeBitwiseRefinesRange ==
    WholeBitwise => (mem = RangeForm.mem /\ err = RangeForm.err)

\* a whole-buffer call over both bytes whose dst is its left operand, with
\* another buffer on the right, that changed the memory
C24_Witness ==
    /\ WholeBitwise
    /\ call.i = BufBits
    /\ call.v3.p = call.v1.p
    /\ call.v2.p # call.v1.p
    /\ err = "ok"
    /\ mem # old

---------------------------------------------------------------------------
\* C25 (SpecBitwise): the range-qualified bitwise_or copies left to dst only
\* when left and right are the same pointer with the same bounds; given two
\* different ranges of one buffer it sets dst bit i to left bit i | right
\* bit i, on the contents from before the call.
OrOfTwoRanges ==
    /\ call.op = "or"
    /\ err = "ok"
    /\ call.v1.p = call.v2.p
    /\ call.v1 # call.v2

C25_OrShortcutNeedsSameBounds == OrOfTwoRanges => CombinedFromOld

---------------------------------------------------------------------------
\* C26: for n a positive multiple of 8, the whole-buffer compare(left, right,
\* n) has the sign of the range-qualified compare of [0, n) of left with
\* [0, n) of right.
C26_WholeCompareRefinesRange ==
    (call.op = "compare_n" /\ call.i > 0 /\ call.i % CHAR_SIZE = 0) =>
        LET rc == compare(old, call.v1.p, 0, call.i, call.v2.p, 0, call.i)
        IN  err = rc.err /\ ret = rc.ret

---------------------------------------------------------------------------
\* C27: the overlap detector answers true when the two views share a byte of
\* memory, and always for identical pointers; it answers false for views of
\* different buffers whose extents [ptr, ptr + width) are disjoint and not
\* adjacent.
BytesOf(v) == { v.p + (k \div CHAR_SIZE) : k \in v.s .. (v.e - 1) }

FarApart(v, w) ==
    /\ v.p # w.p
    /\ \/ v.p + Width(v) < w.p
       \/ w.p + Width(w) < v.p

C27_OverlapNotDegenerate ==
    call.op \in {"overlap", "overlap17"} =>
        /\ BytesOf(call.v1) \cap BytesOf(call.v2) # {} => ret
        /\ call.v1.p = call.v2.p => ret
        /\ FarApart(call.v1, call.v2) => ~ret

---------------------------------------------------------------------------
\* C28: the whole-buffer copy(src, dst, n) between two different buffers
\* makes the first size(n) bytes of dst equal to those of src and changes no
\* other byte: src keeps its contents and no byte of dst at offset size(n) or
\* beyond is written; with src == dst nothing changes.
C28_CopyWholeIsBlockCopy ==
    (call.op = "copy_n" /\ call.i > 0) =>
        LET src == call.v1.p
            dst == call.v2.p
            len == size(call.i)
        IN  /\ err = "ok"
            /\ src = dst => mem = old
            /\ src # dst =>
                 \A a \in Addrs :
                    mem[a] = IF a >= dst /\ a < dst + len THEN old[src + (a - dst)] ELSE old[a]

---------------------------------------------------------------------------
\* C30 (SpecForEachFair): for_each_byte and for_each_bit called with
\* begin > end return, having handed f every byte (every bit) between end
\* and begin once, highest address first, and nothing outside that range.
ForEachRunning == call.op \in {"for_each_byte", "for_each_bit"}
ForEachDone == call.op \in {"for_each_byte_done", "for_each_bit_done"}
Reversed == call.v1.p > call.v2.p

\* the places from hi - 1 down to lo
RECURSIVE Descending(_, _)
Descending(hi, lo) == IF hi <= lo THEN <<>> ELSE <<hi - 1>> \o Descending(hi - 1, lo)

ExpectedReverse ==
    IF call.op \in {"for_each_byte", "for_each_byte_done"}
    THEN Descending(call.v1.p, call.v2.p)
    ELSE Descending(call.v1.p * CHAR_SIZE, call.v2.p * CHAR_SIZE)

IsPrefix(s, t) == Len(s) <= Len(t) /\ s = SubSeq(t, 1, Len(s))

ReverseInRange ==
    ((ForEachRunning \/ ForEachDone) /\ Reversed) =>
        /\ err = "ok"
        /\ IsPrefix(ret.seen, ExpectedReverse)
        /\ ForEachDone => ret.seen = ExpectedReverse

C30_ReverseIterationTerminates ==
    /\ []ReverseInRange
    /\ (ForEachRunning /\ Reversed) ~> ForEachDone

=============================================================================
